---------------------------- MODULE Spec2Model ----------------------------
(***************************************************************************)
(* Medical-appointments dashboard (src/app.py).                            *)
(*                                                                         *)
(* The program reads a CSV file once at import time, derives three columns *)
(* (waiting_days, day_of_week, no_show_flag), builds a page with three     *)
(* filter widgets and two buttons, and serves two callbacks:               *)
(*   update_dashboard  (Apply Filters button, also run when a page opens)  *)
(*   download_filtered (Download Filtered CSV button)                      *)
(* Both call filter_data on the State of the three widgets.                *)
(*                                                                         *)
(* Encoding of values                                                      *)
(*   - a timestamp is the number of whole hours since 1970-01-01T00:00     *)
(*     (a Thursday); a timestamp cell of the file is <<hours>>, or <<>>    *)
(*     when its text is no timestamp;                                      *)
(*   - a no_show_flag is <<0>>, <<1>> or <<>> (NaN);                       *)
(*   - a mean is the pair <<sum, count>> of the non-NaN values, NaN when   *)
(*     count = 0; means are compared by cross-multiplication;              *)
(*   - a table is a sequence of rows, a row a function from column names;  *)
(*   - a multi-select value (a Python list handed to isin) is a set, {}    *)
(*     for [] and for None; an age range is <<lo, hi>>, <<>> for [] and    *)
(*     for None.                                                           *)
(***************************************************************************)
EXTENDS Integers, Sequences, FiniteSets, TLC

VARIABLES
    phase,      \* "start" before the module body ran, then "running" or "aborted"
    csv,        \* KaggleV2-May-2016.csv: [exists, columns, rows]
    df,         \* the module-level DataFrame (line 8), <<>> before the load
    widget,     \* per browser session: the value of the three filter widgets
    page,       \* per browser session: the nine outputs of update_dashboard
    download,   \* the response to the last download request, <<>> before it
    call,       \* a direct call of filter_data, arguments and result; <<>> when none
    users,      \* the browser sessions that may open the page
    browsers    \* the browser sessions that have opened the page

vars == <<phase, csv, df, widget, page, download, call, users, browsers>>

NaN == <<>>
Unparseable == <<>>

(***************************************************************************)
(* Bounds of the model.                                                    *)
(***************************************************************************)
\* longest CSV file (data rows) the dashboard is started on for one session
MaxRows == 2
\* longest CSV file the dashboard is started on for two sessions
MaxSharedRows == 2
\* longest table filter_data is called on directly
MaxCallRows == 3

Sessions == {"s1", "s2"}

(***************************************************************************)
(* Program constants.                                                      *)
(***************************************************************************)
\* value=[0, 100] of the age slider
SliderDefaultLo == 0
SliderDefaultHi == 100
\* .head(10)
TopN == 10

SliderDefault == <<SliderDefaultLo, SliderDefaultHi>>

\* category_orders of the weekday histogram
WeekdayOrder ==
    <<"Monday", "Tuesday", "Wednesday", "Thursday", "Friday", "Saturday", "Sunday">>

(***************************************************************************)
(* The input file.                                                         *)
(***************************************************************************)
Header ==
    <<"PatientId", "Gender", "ScheduledDay", "AppointmentDay", "Age",
      "Neighbourhood", "No-show">>

\* a file whose outcome column is missing
HeaderNoOutcome ==
    <<"PatientId", "Gender", "ScheduledDay", "AppointmentDay", "Age", "Neighbourhood">>

\* a file whose patient column is missing
HeaderNoPatient ==
    <<"Gender", "ScheduledDay", "AppointmentDay", "Age", "Neighbourhood", "No-show">>

\* a file with a column the program does not read, as the published data set has
HeaderMore ==
    <<"PatientId", "AppointmentID", "Gender", "ScheduledDay", "AppointmentDay", "Age",
      "Neighbourhood", "No-show">>

Range(f) == {f[i] : i \in DOMAIN f}

CsvRow(pid, g, sched, appt, age, nb, label) ==
    [c \in Range(Header) |->
        CASE c = "PatientId" -> pid
          [] c = "Gender" -> g
          [] c = "ScheduledDay" -> sched
          [] c = "AppointmentDay" -> appt
          [] c = "Age" -> age
          [] c = "Neighbourhood" -> nb
          [] OTHER -> label]

\* the rows files are made of: both genders, two neighbourhoods, ages inside
\* and outside [0, 100], the two expected labels and an unexpected one, an
\* appointment before its scheduling, and a timestamp that does not parse
CsvRows ==
    { CsvRow(1, "F", <<10>>, <<48>>, 40, "A", "No"),
      CsvRow(1, "M", <<30>>, <<24>>, 115, "B", "Yes"),
      CsvRow(2, "F", <<0>>, <<96>>, -1, "B", "No"),
      CsvRow(2, "M", <<50>>, <<120>>, 40, "A", "Maybe") }

\* a row whose appointment timestamp does not parse
BadRow == CsvRow(3, "F", <<0>>, Unparseable, 40, "A", "No")

Restrict(f, S) == [x \in S |-> f[x]]

RECURSIVE SeqsUpTo(_, _)
SeqsUpTo(S, n) ==
    IF n = 0 THEN {<<>>}
    ELSE LET shorter == SeqsUpTo(S, n - 1)
         IN shorter \cup {Append(q, x) : q \in {p \in shorter : Len(p) = n - 1}, x \in S}

\* the rows of the files two sessions share
SharedRows ==
    { CsvRow(1, "F", <<10>>, <<48>>, 40, "A", "No"),
      CsvRow(2, "M", <<30>>, <<24>>, 40, "A", "Yes") }

File(columns, rows) == [exists |-> TRUE, columns |-> columns, rows |-> rows]

\* no file of that name in the working directory
NoFile == [exists |-> FALSE, columns |-> <<>>, rows |-> <<>>]

\* the row r with one more cell
WithAppointmentID(r, id) ==
    [c \in Range(HeaderMore) |-> IF c = "AppointmentID" THEN id ELSE r[c]]

SharedFilesUpTo(n) == {File(Header, rs) : rs \in SeqsUpTo(SharedRows, n)}

FilesUpTo(n) ==
    {File(Header, rs) : rs \in SeqsUpTo(CsvRows, n)}
    \cup {File(Header, <<r, BadRow>>) : r \in CsvRows}
    \cup {File(HeaderNoOutcome, <<Restrict(r, Range(HeaderNoOutcome))>>) : r \in CsvRows}
    \cup {File(HeaderNoPatient, <<Restrict(r, Range(HeaderNoPatient))>>) : r \in SharedRows}
    \cup {File(HeaderMore, <<WithAppointmentID(r, 7)>>) : r \in SharedRows}
    \cup {NoFile}


(***************************************************************************)
(* Load: lines 8-17, and the parts of the layout that read df.             *)
(***************************************************************************)
\* df.columns.str.strip().str.lower().str.replace('-', '_') on the file's header
NormalizedName(c) ==
    CASE c = "PatientId" -> "patientid"
      [] c = "Gender" -> "gender"
      [] c = "ScheduledDay" -> "scheduledday"
      [] c = "AppointmentDay" -> "appointmentday"
      [] c = "Age" -> "age"
      [] c = "Neighbourhood" -> "neighbourhood"
      [] c = "No-show" -> "no_show"
      [] c = "AppointmentID" -> "appointmentid"

read_csv(file) ==
    LET cols == {NormalizedName(c) : c \in Range(file.columns)}
        Raw(c) == CHOOSE h \in Range(file.columns) : NormalizedName(h) = c
    IN [i \in 1..Len(file.rows) |-> [c \in cols |-> file.rows[i][Raw(c)]]]

\* pd.to_datetime raises on a cell that is no timestamp
to_datetime_raises(t, col) == \E i \in DOMAIN t : t[i][col] = Unparseable

to_datetime(cell) == cell[1]

\* (appointmentday - scheduledday).dt.days: whole days, rounded down
waiting_days(r) ==
    (to_datetime(r["appointmentday"]) - to_datetime(r["scheduledday"])) \div 24

\* .dt.day_name(); 1970-01-01 was a Thursday
day_name(ts) == WeekdayOrder[(((ts \div 24) + 3) % 7) + 1]

\* .map({'No': 0, 'Yes': 1}): a value that is no key maps to NaN
no_show_flag(label) ==
    CASE label = "No" -> <<0>>
      [] label = "Yes" -> <<1>>
      [] OTHER -> NaN

\* the columns the module body reads: lines 12, 13, 17, 27, 34 and 43
ColumnsReadAtImport ==
    {"appointmentday", "scheduledday", "no_show", "gender", "age", "neighbourhood"}

\* the module body raises: no file (line 8), a column it reads is missing
\* (KeyError), a timestamp that does not parse (lines 12-13), or int(NaN) for
\* the slider of an empty table (lines 34-35).  Columns it does not read may
\* be there or not.
load_raises(file) ==
    \/ ~file.exists
    \/ ~(ColumnsReadAtImport \subseteq {NormalizedName(c) : c \in Range(file.columns)})
    \/ to_datetime_raises(read_csv(file), "appointmentday")
    \/ to_datetime_raises(read_csv(file), "scheduledday")
    \/ Len(read_csv(file)) = 0

DerivedColumns == <<"waiting_days", "day_of_week", "no_show_flag">>

\* df.columns after the load: the file's columns, then the derived ones
df_columns(file) ==
    [k \in DOMAIN file.columns |-> NormalizedName(file.columns[k])] \o DerivedColumns

load_table(file) ==
    LET t == read_csv(file)
    IN [i \in 1..Len(t) |->
          [c \in (DOMAIN t[i]) \cup Range(DerivedColumns) |->
              CASE c = "waiting_days" -> waiting_days(t[i])
                [] c = "day_of_week" -> day_name(to_datetime(t[i]["appointmentday"]))
                [] c = "no_show_flag" -> no_show_flag(t[i]["no_show"])
                [] c \in {"appointmentday", "scheduledday"} -> to_datetime(t[i][c])
                [] OTHER -> t[i][c]]]

Column(t, c) == {t[i][c] : i \in DOMAIN t}

SetMin(S) == CHOOSE x \in S : \A y \in S : x <= y
SetMax(S) == CHOOSE x \in S : \A y \in S : x >= y

\* the options of the two dropdowns and the ends of the age slider
gender_options(t) == Column(t, "gender")
neighborhood_options(t) == Column(t, "neighbourhood")
age_slider_min(t) == SetMin(Column(t, "age"))
age_slider_max(t) == SetMax(Column(t, "age"))


(***************************************************************************)
(* filter_data: lines 91-99.                                               *)
(***************************************************************************)
RECURSIVE Rows(_, _)
\* t[mask]: the rows of t whose index is in keep, in the order of t
Rows(t, keep) ==
    IF t = <<>> THEN <<>>
    ELSE LET front == Rows(SubSeq(t, 1, Len(t) - 1), keep)
         IN IF Len(t) \in keep THEN Append(front, t[Len(t)]) ELSE front

\* filtered['gender'].isin(gender)
gender_mask(t, gender) == {i \in DOMAIN t : t[i]["gender"] \in gender}

\* an age test that leaves out the two ends of the range
age_mask_strict(t, age_range) ==
    {i \in DOMAIN t : t[i]["age"] > age_range[1] /\ t[i]["age"] < age_range[2]}

\* (filtered['age'] >= age_range[0]) & (filtered['age'] <= age_range[1])
age_mask(t, age_range) ==
    {i \in DOMAIN t : t[i]["age"] >= age_range[1] /\ t[i]["age"] <= age_range[2]}

\* filtered['neighbourhood'].isin(neighborhood)
neighborhood_mask(t, neighborhood) ==
    {i \in DOMAIN t : t[i]["neighbourhood"] \in neighborhood}

\* a filter_data that makes the age test whatever the selection is: nothing
\* lies inside a range that is not given
filter_data_age_always(t, gender, age_range, neighborhood) ==
    LET by_gender == IF gender # {} THEN Rows(t, gender_mask(t, gender)) ELSE t
        lo == IF age_range # <<>> THEN age_range[1] ELSE 1
        hi == IF age_range # <<>> THEN age_range[2] ELSE 0
        by_age == Rows(by_gender, age_mask(by_gender, <<lo, hi>>))
    IN IF neighborhood # {}
       THEN Rows(by_age, neighborhood_mask(by_age, neighborhood))
       ELSE by_age

\* the body of filter_data on the table t (df.copy()); each of the three
\* "if x:" tests is false for an empty list and for None
filter_data(t, gender, age_range, neighborhood) ==
    LET copy == t
        by_gender ==
            IF gender # {} THEN Rows(copy, gender_mask(copy, gender)) ELSE copy
        by_age ==
            IF age_range # <<>>
            THEN Rows(by_gender, age_mask(by_gender, age_range))
            ELSE by_gender
    IN IF neighborhood # {}
       THEN Rows(by_age, neighborhood_mask(by_age, neighborhood))
       ELSE by_age


(***************************************************************************)
(* Number formatting: the f-strings of lines 124-125.                      *)
(***************************************************************************)
Digit == <<"0", "1", "2", "3", "4", "5", "6", "7", "8", "9">>

RECURSIVE Decimal(_)
\* str(n) for n >= 0
Decimal(n) == IF n < 10 THEN Digit[n + 1] ELSE Decimal(n \div 10) \o Digit[(n % 10) + 1]

RECURSIVE Pow10(_)
Pow10(d) == IF d = 0 THEN 1 ELSE 10 * Pow10(d - 1)

RECURSIVE ZeroPadded(_, _)
\* n written with exactly d digits
ZeroPadded(n, d) ==
    IF d = 0 THEN "" ELSE ZeroPadded(n \div 10, d - 1) \o Digit[(n % 10) + 1]

Abs(n) == IF n < 0 THEN 0 - n ELSE n

RECURSIVE FloorLog2(_, _)
\* the binary exponent of p / q for p, q > 0: 2^L <= p / q < 2^(L + 1)
FloorLog2(p, q) ==
    IF p >= 2 * q THEN FloorLog2(p, 2 * q) + 1
    ELSE IF p < q THEN FloorLog2(2 * p, q) - 1
    ELSE 0

RECURSIVE Doubled(_, _, _)
\* (c * 2^t) % m
Doubled(c, t, m) == IF t = 0 THEN c ELSE Doubled((2 * c) % m, t - 1, m)

RECURSIVE Pow2(_)
Pow2(k) == IF k = 0 THEN 1 ELSE 2 * Pow2(k - 1)

RECURSIVE BitLength(_)
\* floor(log2(n)) for n >= 1
BitLength(n) == IF n < 2 THEN 0 ELSE BitLength(n \div 2) + 1

\* The float64 arithmetic of lines 124-125, kept in small integers.  The mean
\* is the double nearest to num / den: its 53-bit significand is M = round(y)
\* with y = |num| * 2^t / den, of which the model keeps the low bits and the
\* rounding error.  The rate multiplies that double by scale (100) and rounds
\* the product to 53 bits again; the waiting time has scale 1, which leaves the
\* double alone.  The result is the sign of (formatted double - exact value),
\* times a positive factor.
float_error(num, den, scale) ==
    LET p == Abs(num)
        L == FloorLog2(p, den)
        t == 52 - L
        r == Doubled(p % den, t, den)
        B == BitLength(scale)
        K == Pow2(B + 2)
        lowM0 == Doubled(p % (K * den), t, K * den) \div den
        up == IF 2 * r > den \/ (2 * r = den /\ lowM0 % 2 = 1) THEN 1 ELSE 0
        lowM == (lowM0 + up) % K
        d1 == up * den - r
        lhs == p * scale * (IF L < 0 THEN Pow2(0 - L) ELSE 1)
        rhs == Pow2(B + 1) * den * (IF L > 0 THEN Pow2(L) ELSE 1)
        G == IF lhs > rhs \/ (lhs = rhs /\ d1 >= 0) THEN Pow2(B + 1) ELSE Pow2(B)
        R == (scale * lowM) % G
        odd == (scale * lowM) % (2 * G) >= G
        d2 == IF R = 0 THEN 0
              ELSE IF 2 * R < G \/ (2 * R = G /\ ~odd) THEN 0 - R
              ELSE G - R
    IN scale * d1 + d2 * den

\* format(num / den * scale, ".<d>f") for den > 0: the double is written
\* rounded to the nearest d-digit decimal, a tie to the even digit.  A decimal
\* tie of the exact value is no tie of the double unless the double is exact,
\* and is then rounded to the side the double's error falls on.  The sign of a
\* negative value stays on a result that rounds to 0.
format_fixed(num, den, scale, d) ==
    LET scaled == Abs(num) * scale * Pow10(d)
        q == scaled \div den
        r == scaled % den
        e == IF 2 * r = den THEN float_error(num, den, scale) ELSE 0
        rounded == IF 2 * r > den \/ (2 * r = den /\ (e > 0 \/ (e = 0 /\ q % 2 = 1)))
                   THEN q + 1 ELSE q
    IN (IF num < 0 THEN "-" ELSE "")
         \o Decimal(rounded \div Pow10(d)) \o "." \o ZeroPadded(rounded % Pow10(d), d)

\* f"{mean * scale:.<d>f}" of a mean given as <<sum, count>>; the mean of no
\* values is NaN, which formats as "nan"
format_mean(m, scale, d) ==
    IF m[2] = 0 THEN "nan" ELSE format_fixed(m[1], m[2], scale, d)

(***************************************************************************)
(* Aggregates: the body of update_dashboard, lines 123-140.                *)
(***************************************************************************)
RECURSIVE SumSeq(_)
SumSeq(q) == IF q = <<>> THEN 0 ELSE q[1] + SumSeq(Tail(q))

\* Series.mean() of a column of integers: NaN when there is no row
mean_int(t, col) == <<SumSeq([i \in DOMAIN t |-> t[i][col]]), Len(t)>>

\* Series.mean() of no_show_flag: NaN values are skipped
mean_flag(t) ==
    LET known == Rows(t, {i \in DOMAIN t : t[i]["no_show_flag"] # NaN})
    IN <<SumSeq([i \in DOMAIN known |-> known[i]["no_show_flag"][1]]), Len(known)>>

Count(t, col, v) == Cardinality({i \in DOMAIN t : t[i][col] = v})

\* a pie that knows the two expected labels only
pie_two_labels(t) ==
    [l \in Column(t, "no_show") \cap {"No", "Yes"} |-> Count(t, "no_show", l)]

\* px.pie(filtered, names='no_show'): one slice per label of the view, its
\* size the number of rows with that label
pie(t) == [l \in Column(t, "no_show") |-> Count(t, "no_show", l)]

RECURSIVE Distinct(_)
\* the values of a sequence in order of first appearance
Distinct(q) ==
    IF q = <<>> THEN <<>>
    ELSE LET front == Distinct(SubSeq(q, 1, Len(q) - 1))
         IN IF q[Len(q)] \in Range(front) THEN front ELSE Append(front, q[Len(q)])

\* the traces px.histogram(filtered, x=..., color="no_show") builds: one per
\* label of the view, in order of first appearance, holding the x value of
\* each of the label's rows.  The program counts nothing: the bars are binned
\* and counted by the chart library in the browser.
histogram_traces(t, x) ==
    LET labels == Distinct([i \in DOMAIN t |-> t[i]["no_show"]])
    IN [k \in DOMAIN labels |->
          LET rows == Rows(t, {i \in DOMAIN t : t[i]["no_show"] = labels[k]})
          IN [name |-> labels[k], x |-> [i \in DOMAIN rows |-> rows[i][x]]]]

\* px.histogram(filtered, x="age", color="no_show", barmode="overlay")
age_histogram(t) == [barmode |-> "overlay", traces |-> histogram_traces(t, "age")]

\* px.histogram(filtered, x="day_of_week", color="no_show", barmode="group",
\* category_orders={"day_of_week": [...]}): category_orders becomes the
\* category array of the x axis; no range is given for the axis
weekday_histogram(t) ==
    [barmode |-> "group",
     categoryarray |-> WeekdayOrder,
     traces |-> histogram_traces(t, "day_of_week")]

\* the position of a category on an axis
CategoryIndex(axis, c) == CHOOSE k \in DOMAIN axis : axis[k] = c

\* What the chart library draws for the weekday figure.  On a category axis
\* without a range the bins of a histogram run from the first to the last
\* category of the axis that occurs in the data of the traces, which share
\* their bins; every trace has a count for each bin, zero when it has no value
\* there.  Categories before the first or after the last one that occurs have
\* no bin and lie outside the axis range.
histogram_bins(fig) ==
    LET present ==
            UNION {{CategoryIndex(fig.categoryarray, fig.traces[k].x[i]) :
                       i \in DOMAIN fig.traces[k].x} : k \in DOMAIN fig.traces}
        span ==
            IF present = {} THEN <<>>
            ELSE [j \in 1..(SetMax(present) - SetMin(present) + 1) |->
                     fig.categoryarray[SetMin(present) + j - 1]]
    IN [categories |-> span,
        counts |->
          [k \in DOMAIN fig.traces |->
             [j \in DOMAIN span |->
                Cardinality({i \in DOMAIN fig.traces[k].x :
                                fig.traces[k].x[i] = span[j]})]]]

\* sorted(): the neighbourhood names of the model in lexicographic order
SortedNames == <<"A", "B">>

\* filtered.groupby('neighbourhood')['no_show_flag'].mean(): one entry per
\* neighbourhood of the view, in sorted key order
groupby_mean(t) ==
    LET keys == SelectSeq(SortedNames, LAMBDA n : n \in Column(t, "neighbourhood"))
    IN [k \in DOMAIN keys |->
          [neighbourhood |-> keys[k],
           no_show_flag |->
              mean_flag(Rows(t, {i \in DOMAIN t : t[i]["neighbourhood"] = keys[k]}))]]

IsNaN(m) == m[2] = 0
\* a < b for two means that are not NaN
MeanLess(a, b) == a[1] * b[2] < b[1] * a[2]

RECURSIVE Descending(_, _)
\* the orders in which the entries g[i], i \in idx, are non-increasing
Descending(g, idx) ==
    IF idx = {} THEN {<<>>}
    ELSE UNION {
           {<<g[i]>> \o rest : rest \in Descending(g, idx \ {i})} :
             i \in {j \in idx :
                      \A k \in idx : ~MeanLess(g[j].no_show_flag, g[k].no_show_flag)}}

\* .sort_values(ascending=False): kind defaults to 'quicksort', which numpy
\* documents as not stable, so entries with equal means come in any order; NaN
\* means go last (na_position='last') in their original order
sort_values(g) ==
    LET nans == SelectSeq(g, LAMBDA e : IsNaN(e.no_show_flag))
    IN {order \o nans :
          order \in Descending(g, {i \in DOMAIN g : ~IsNaN(g[i].no_show_flag)})}

\* .head(n)
head(q, n) == SubSeq(q, 1, IF Len(q) < n THEN Len(q) ELSE n)

\* the nine outputs of update_dashboard for a view and one outcome of the sort
dashboard(filtered, top_neigh) ==
    [total_appointments |-> Len(filtered),
     no_show_rate |-> format_mean(mean_flag(filtered), 100, 2) \o "%",
     avg_waiting |-> format_mean(mean_int(filtered, "waiting_days"), 1, 1) \o " days",
     unique_patients |-> Cardinality(Column(filtered, "patientid")),
     fig_show |-> pie(filtered),
     fig_age |-> age_histogram(filtered),
     fig_weekday |-> weekday_histogram(filtered),
     fig_neigh |-> top_neigh,
     data |-> filtered]


(***************************************************************************)
(* The download: lines 150-152.                                            *)
(***************************************************************************)
\* the lines to_csv(index=False) writes after the header line: one per row,
\* the cells in the order of the table's columns
csv_lines(t, columns) ==
    [i \in DOMAIN t |-> [k \in DOMAIN columns |-> t[i][columns[k]]]]

\* filtered.to_csv(index=False): the header line, then the rows' lines
to_csv(t, columns) == <<columns>> \o csv_lines(t, columns)

\* dcc.send_data_frame(filtered.to_csv, filename, index=False)
send_data_frame(t, columns, filename) ==
    [filename |-> filename, content |-> to_csv(t, columns)]

(***************************************************************************)
(* The widgets of the sidebar: lines 25-46.                                *)
(***************************************************************************)
\* value=[], value=[0, 100], value=[]
default_widgets ==
    [gender |-> {}, age |-> SliderDefault, neighborhood |-> {}]

\* the positions the user drags the slider's handles to: both ends of the
\* slider (min .. max), or both handles on its lower end
age_choices(t) ==
    {<<age_slider_min(t), age_slider_max(t)>>, <<age_slider_min(t), age_slider_min(t)>>}

(***************************************************************************)
(* The state machine.                                                      *)
(***************************************************************************)
Init ==
    /\ phase = "start"
    /\ \/ users = {"s1"} /\ csv \in FilesUpTo(MaxRows)
       \/ users = Sessions /\ csv \in SharedFilesUpTo(MaxSharedRows)
    /\ df = <<>>
    /\ widget = [s \in Sessions |-> default_widgets]
    /\ page = [s \in Sessions |-> <<>>]
    /\ download = <<>>
    /\ call = <<>>
    /\ browsers = {}

\* the module body, lines 8-87: the process dies when it raises
Load ==
    /\ phase = "start"
    /\ IF load_raises(csv)
       THEN phase' = "aborted" /\ df' = df
       ELSE phase' = "running" /\ df' = load_table(csv)
    /\ UNCHANGED <<csv, widget, page, download, call, users, browsers>>

\* lines 120-140 with the view assigned to the module's df
update_dashboard_in_place(s) ==
    LET filtered ==
            filter_data(df, widget[s].gender, widget[s].age, widget[s].neighborhood)
    IN /\ IF "patientid" \in Range(df_columns(csv))
          THEN \E order \in sort_values(groupby_mean(filtered)) :
                  page' = [page EXCEPT ![s] = <<dashboard(filtered, head(order, TopN))>>]
          ELSE page' = page
       /\ df' = filtered
       /\ UNCHANGED <<phase, csv, widget, download, call, users>>

\* lines 120-140, on the State of the session's widgets.  Line 126 raises
\* KeyError on a table without patientid: the callback fails and the page
\* keeps the outputs it had.
update_dashboard(s) ==
    LET filtered ==
            filter_data(df, widget[s].gender, widget[s].age, widget[s].neighborhood)
    IN /\ IF "patientid" \in Range(df_columns(csv))
          THEN \E order \in sort_values(groupby_mean(filtered)) :
                  page' = [page EXCEPT ![s] = <<dashboard(filtered, head(order, TopN))>>]
          ELSE page' = page
       /\ UNCHANGED <<phase, csv, df, widget, download, call, users>>

\* lines 150-152, on the State of the session's widgets
download_filtered(s) ==
    LET filtered ==
            filter_data(df, widget[s].gender, widget[s].age, widget[s].neighborhood)
    IN /\ download' =
            <<[session |-> s,
               data |-> send_data_frame(filtered, df_columns(csv),
                                        "filtered_medical_appointments.csv")]>>
       /\ UNCHANGED <<phase, csv, df, widget, page, call, users>>

\* a browser loads the page: prevent_initial_call=False runs update_dashboard
\* on the widgets' initial values
OpenPage(s) ==
    /\ phase = "running"
    /\ s \in users \ browsers
    /\ browsers' = browsers \cup {s}
    /\ update_dashboard(s)

\* the user changes one widget; nothing is sent to the server
SetWidget(s, w) ==
    /\ widget' = [widget EXCEPT ![s] = w]
    /\ UNCHANGED <<phase, csv, df, page, download, call, users, browsers>>

SetGender(s) ==
    /\ phase = "running"
    /\ s \in browsers
    /\ \E g \in SUBSET gender_options(df) :
          SetWidget(s, [widget[s] EXCEPT !.gender = g])

SetAge(s) ==
    /\ phase = "running"
    /\ s \in browsers
    /\ \E r \in age_choices(df) : SetWidget(s, [widget[s] EXCEPT !.age = r])

SetNeighborhood(s) ==
    /\ phase = "running"
    /\ s \in browsers
    /\ \E n \in SUBSET neighborhood_options(df) :
          SetWidget(s, [widget[s] EXCEPT !.neighborhood = n])

\* a click on "Apply Filters"
ApplyFilters(s) ==
    /\ phase = "running"
    /\ s \in browsers
    /\ update_dashboard(s)
    /\ UNCHANGED browsers

\* a click on "Download Filtered CSV"
DownloadCsv(s) ==
    /\ phase = "running"
    /\ s \in browsers
    /\ download_filtered(s)
    /\ UNCHANGED browsers

Next ==
    \/ Load
    \/ \E s \in Sessions : OpenPage(s)
    \/ \E s \in Sessions : SetGender(s)
    \/ \E s \in Sessions : SetAge(s)
    \/ \E s \in Sessions : SetNeighborhood(s)
    \/ \E s \in Sessions : ApplyFilters(s)
    \/ \E s \in Sessions : DownloadCsv(s)

Spec == Init /\ [][Next]_vars


(***************************************************************************)
(* filter_data called directly, on every selection of a bounded set.       *)
(***************************************************************************)
CallGenders == SUBSET {"F", "M"}
CallNeighborhoods == SUBSET Range(SortedNames)
CallAgeStops == {-1, 0, 40, 41, 100, 115}
CallAgeRanges == {<<>>} \cup (CallAgeStops \X CallAgeStops)

InitFilter ==
    /\ phase = "running"
    /\ csv \in {f \in FilesUpTo(MaxCallRows) : ~load_raises(f)}
    /\ df = load_table(csv)
    /\ widget = [s \in Sessions |-> default_widgets]
    /\ page = [s \in Sessions |-> <<>>]
    /\ download = <<>>
    /\ call = <<>>
    /\ users = {}
    /\ browsers = {}

CallFilterData ==
    /\ call = <<>>
    /\ \E g \in CallGenders, a \in CallAgeRanges, n \in CallNeighborhoods :
          call' = <<[gender |-> g, age_range |-> a, neighborhood |-> n,
                     result |-> filter_data(df, g, a, n)]>>
    /\ UNCHANGED <<phase, csv, df, widget, page, download, users, browsers>>

\* the caller takes the result
Return ==
    /\ call # <<>>
    /\ call' = <<>>
    /\ UNCHANGED <<phase, csv, df, widget, page, download, users, browsers>>

NextFilter == CallFilterData \/ Return

SpecFilter == InitFilter /\ [][NextFilter]_vars

(***************************************************************************)
(* What the claims say, stated without the code's own operators.           *)
(***************************************************************************)
\* the rows a selection asks for: every constraint that is given holds
Wanted(t, gender, age_range, neighborhood) ==
    {i \in DOMAIN t :
        /\ gender = {} \/ t[i]["gender"] \in gender
        /\ age_range = <<>> \/
             (age_range[1] <= t[i]["age"] /\ t[i]["age"] <= age_range[2])
        /\ neighborhood = {} \/ t[i]["neighbourhood"] \in neighborhood}

\* the j-th smallest element of a set of indices
Kth(K, j) == CHOOSE i \in K : Cardinality({x \in K : x < i}) = j - 1

\* view is t restricted to the indices K, in the order of t
IsRestriction(view, t, K) ==
    /\ Len(view) = Cardinality(K)
    /\ \A j \in 1..Len(view) : view[j] = t[Kth(K, j)]

\* C1: for a selection with an age interval, filter_data returns exactly the
\* rows of the full table that satisfy all three constraints, in the table's
\* order, and never more rows than the table has.
C1_FilterExact ==
    \A k \in DOMAIN call :
        call[k].age_range # <<>> =>
            /\ IsRestriction(call[k].result, df,
                   Wanted(df, call[k].gender, call[k].age_range, call[k].neighborhood))
            /\ Len(call[k].result) <= Len(df)

\* a call with all three constraints given that keeps one row and drops another
C1_Witness ==
    \E k \in DOMAIN call :
        /\ call[k].gender # {} /\ call[k].age_range # <<>> /\ call[k].neighborhood # {}
        /\ Len(call[k].result) = 1
        /\ Len(df) = 2
        /\ \E i \in DOMAIN df : df[i]["age"] = call[k].age_range[1]

\* C10 as stated: the age test is made on every call, so a call with an omitted
\* or empty age selection keeps no row, and a call with one keeps only rows
\* inside it.
C10_AgeAlwaysApplied ==
    \A k \in DOMAIN call :
        \A j \in DOMAIN call[k].result :
            /\ call[k].age_range # <<>>
            /\ call[k].age_range[1] <= call[k].result[j]["age"]
            /\ call[k].result[j]["age"] <= call[k].age_range[2]

\* C10 amended: the age test is made on every call whose age selection is not
\* empty; with an omitted or empty age selection filter_data skips it and keeps
\* the rows the other two constraints ask for.
C10_AgeAppliedUnlessEmpty ==
    \A k \in DOMAIN call :
        /\ call[k].age_range # <<>> =>
              \A j \in DOMAIN call[k].result :
                  /\ call[k].age_range[1] <= call[k].result[j]["age"]
                  /\ call[k].result[j]["age"] <= call[k].age_range[2]
        /\ call[k].age_range = <<>> =>
              IsRestriction(call[k].result, df,
                  Wanted(df, call[k].gender, <<>>, call[k].neighborhood))

\* a call without an age selection that keeps a row and drops another
C10_Witness ==
    \E k \in DOMAIN call :
        /\ call[k].age_range = <<>>
        /\ call[k].gender # {}
        /\ Len(call[k].result) = 1
        /\ Len(df) = 2


RECURSIVE SumOver(_)
\* the sum of the values of a function with a finite domain
SumOver(f) ==
    IF DOMAIN f = {} THEN 0
    ELSE LET x == CHOOSE y \in DOMAIN f : TRUE
         IN f[x] + SumOver([y \in (DOMAIN f) \ {x} |-> f[y]])

Shown(s) == page[s][1]
\* the sessions whose page shows the outputs of a callback
Opened == {s \in Sessions : page[s] # <<>>}
\* the rows a session's table displays: none before a callback filled it
Displayed(s) == IF page[s] = <<>> THEN <<>> ELSE page[s][1].data

\* C2 as stated: whenever a download is made, the rows of the file are the
\* rows, in the same order, of the view the session's table displays.
C2_DownloadIsDisplayedView ==
    [][download' # download =>
          Tail(download'[1].data.content) =
              csv_lines(Displayed(download'[1].session), df_columns(csv))]_vars

\* C3: once loaded, the full table stays what the load produced, whatever the
\* sessions do, and every view put on a page or into a download is the
\* restriction of that full table to the session's selection, not of an
\* earlier view.
C3_TableNeverMutated ==
    [][/\ (phase = "start" /\ phase' = "running") => df' = load_table(csv)
       /\ phase = "running" => df' = df
       /\ \A s \in Sessions :
             page'[s] # page[s] =>
                 IsRestriction(page'[s][1].data, df,
                     Wanted(df, widget[s].gender, widget[s].age, widget[s].neighborhood))
       /\ download' # download =>
             LET s == download'[1].session
                 K == Wanted(df, widget[s].gender, widget[s].age, widget[s].neighborhood)
             IN /\ Len(download'[1].data.content) = 1 + Cardinality(K)
                /\ IsRestriction(Tail(download'[1].data.content),
                                 csv_lines(df, df_columns(csv)), K)]_vars

\* two sessions show different views of one table, and a download was made
C3_Witness ==
    /\ Opened = Sessions
    /\ Shown("s1").data = df
    /\ Shown("s2").total_appointments = 1
    /\ Len(df) = 2
    /\ download # <<>>
    /\ download[1].session = "s2"
    /\ Len(download[1].data.content) = 2

\* C4 as stated: the view rendered when a page opens, before any user change,
\* is the full table.
C4_DefaultViewIsFullTable ==
    [][\A s \in Sessions :
          (s \notin browsers /\ s \in browsers' /\ page'[s] # <<>>) =>
              page'[s][1].data = df]_vars

\* C5: on every page the slice sizes of the outcome pie sum to the number of
\* rows of the view, which is the total shown.
C5_OutcomeSplitSumsToTotal ==
    \A s \in Opened :
        /\ SumOver(Shown(s).fig_show) = Shown(s).total_appointments
        /\ Shown(s).total_appointments = Len(Shown(s).data)

\* a view with a row whose label is neither "No" nor "Yes", and another row
C5_Witness ==
    \E s \in Opened :
        /\ Shown(s).total_appointments = 2
        /\ "Maybe" \in DOMAIN Shown(s).fig_show
        /\ Cardinality(DOMAIN Shown(s).fig_show) = 2

\* C6 as stated: the neighbourhood chart has one entry per neighbourhood of the
\* view up to 10, the highest means first, and entries with equal means in
\* grouping order.
C6_TopTenStable ==
    \A s \in Opened :
        LET g == groupby_mean(Shown(s).data)
            top == Shown(s).fig_neigh
            Pos(e) == CHOOSE k \in DOMAIN g : g[k] = e
        IN /\ Len(top) = (IF Len(g) < TopN THEN Len(g) ELSE TopN)
           /\ \A i \in DOMAIN top : top[i] \in Range(g)
           /\ \A i, j \in DOMAIN top :
                 i < j =>
                    /\ ~IsNaN(top[j].no_show_flag) =>
                          /\ ~IsNaN(top[i].no_show_flag)
                          /\ ~MeanLess(top[i].no_show_flag, top[j].no_show_flag)
                    /\ ( \/ IsNaN(top[i].no_show_flag) /\ IsNaN(top[j].no_show_flag)
                         \/ /\ ~IsNaN(top[i].no_show_flag) /\ ~IsNaN(top[j].no_show_flag)
                            /\ ~MeanLess(top[j].no_show_flag, top[i].no_show_flag)
                       ) => Pos(top[i]) < Pos(top[j])

\* C7 as stated: on every page the weekday chart has the seven categories
\* Monday to Sunday in that order, whichever weekdays occur in the view, and
\* for every label a count for each of them: the number of the label's rows on
\* that weekday, zero when there is none.
C7_WeekdayAxisFixed ==
    \A s \in Opened :
        LET fig == Shown(s).fig_weekday
            drawn == histogram_bins(fig)
            view == Shown(s).data
        IN /\ fig.categoryarray = WeekdayOrder
           /\ drawn.categories = WeekdayOrder
           /\ \A k \in DOMAIN fig.traces :
                 \A j \in 1..7 :
                     drawn.counts[k][j] =
                        Cardinality({i \in DOMAIN view :
                                        /\ view[i]["no_show"] = fig.traces[k].name
                                        /\ view[i]["day_of_week"] = WeekdayOrder[j]})

\* C8 as stated: for an empty view the rate and the average shown are a
\* defined fallback, not a not-a-number.
C8_EmptyViewFallback ==
    \A s \in Opened :
        Shown(s).total_appointments = 0 =>
            /\ Shown(s).no_show_rate # "nan%"
            /\ Shown(s).avg_waiting # "nan days"

\* C9 as stated: no running state holds a table with a row whose outcome flag
\* is missing or is anything but 0 or 1.
C9_LoadAllOrNothing ==
    phase = "running" =>
        \A i \in DOMAIN df : df[i]["no_show_flag"] \in {<<0>>, <<1>>}

=============================================================================
